---- MODULE Spec2Model ----
(***************************************************************************)
(* Model of jni/main.c: the SIGSEGV handler that captures a backtrace with *)
(* up to three unwinding methods and prints it.                            *)
(*                                                                         *)
(* The program state is the handler's position, the BacktraceState of the  *)
(* current block, the locals of PrintBacktrace and the text written to     *)
(* stdout.  The environment (the build, the fault context delivered by the *)
(* kernel, the frame chain the unwinder walks, the loaded module) is drawn *)
(* in Init and does not change afterwards.                                 *)
(***************************************************************************)
EXTENDS Integers, Sequences, FiniteSets, TLC

(***************************************************************************)
(* Bounds of the model.                                                    *)
(***************************************************************************)
\* Code addresses are 0..MaxAddr.
MaxAddr == 4
\* The frame chain the unwinder walks has at most MaxFrames distinct frames
\* (a chain may loop back on itself and then yields frames for ever).
MaxFrames == 2
\* The count of callback invocations of one walk is kept up to MaxCalls.
MaxCalls == 5

(***************************************************************************)
(* Program constants.                                                      *)
(***************************************************************************)
address_count_max == 30
address_skip_count_default == 3

Addr == 0..MaxAddr
NULL == 0

\* The three methods, in the order of the blocks of SigActionHandler.
LIBUNWIND_WITH_REGISTERS_METHOD == "LIBUNWIND_WITH_REGISTERS_METHOD"
UNWIND_BACKTRACE_WITH_REGISTERS_METHOD == "UNWIND_BACKTRACE_WITH_REGISTERS_METHOD"
UNWIND_BACKTRACE_WITH_SKIPPING_METHOD == "UNWIND_BACKTRACE_WITH_SKIPPING_METHOD"

\* _Unwind_Reason_Code values the callbacks return.
URC_NO_REASON == "_URC_NO_REASON"
URC_END_OF_STACK == "_URC_END_OF_STACK"

VARIABLES
    build,        \* [arm, thumb, ndebug]: __arm__, __thumb__, NDEBUG of the build
    ucontext,     \* the fault context: [arm_pc |-> address of the faulting instruction]
    frames,       \* instruction pointers of the frame chain the unwinder walks
    loop,         \* 0: the chain ends after its last frame; k > 0: the last frame links back to frame k
    at,           \* position of the handler
    mi,           \* index of the current block in Methods
    state,        \* backtrace_state of the current block
    pos,          \* unwinder cursor: index in frames of the next frame, 0 at the end of the stack
    reg_ip,       \* instruction pointer register of the unwinder's cursor / context
    frame_ip,     \* instruction pointer of the frame presented to the latest callback
    ncalls,       \* callback invocations of the current walk (kept up to MaxCalls)
    walked,       \* frames the unwinder has yielded in the current walk (kept up to WalkCap)
    tick,         \* parity of the count of frames the unwinder has yielded in the current walk
    rc,           \* return code of the latest callback
    add,          \* latest step's BacktraceState_AddAddress call: [called, ip, ok, before]
    recent,       \* arguments and results of the latest (up to three) AddAddress calls of the walk
    frame_index,  \* PrintBacktrace: loop variable
    info,         \* PrintBacktrace: Dl_info of the latest dladdr call, with its return value
    demangled,    \* PrintBacktrace: result of the latest __cxa_demangle call
    stdout        \* lines written so far

vars == <<build, ucontext, frames, loop, at, mi, state, pos, reg_ip, frame_ip,
          ncalls, walked, tick, rc, add, recent,
          frame_index, info, demangled, stdout>>

env == <<build, ucontext, frames, loop>>

(***************************************************************************)
(* The build.                                                              *)
(***************************************************************************)
\* __thumb__ is defined only by ARM compilers; NDEBUG turns assert() off.
Builds ==
    {b \in [arm : BOOLEAN, thumb : BOOLEAN, ndebug : BOOLEAN] : b.thumb => b.arm}

\* The blocks SigActionHandler is compiled with, in their order.
Methods ==
    IF build.arm
    THEN <<LIBUNWIND_WITH_REGISTERS_METHOD,
           UNWIND_BACKTRACE_WITH_REGISTERS_METHOD,
           UNWIND_BACKTRACE_WITH_SKIPPING_METHOD>>
    ELSE <<UNWIND_BACKTRACE_WITH_SKIPPING_METHOD>>

method == Methods[mi]

(***************************************************************************)
(* The fault context.  The ARM program counter never has bit 0 set (the    *)
(* Thumb state is kept in the CPSR), so arm_pc is even.                    *)
(***************************************************************************)
FaultContexts == {[arm_pc |-> p] : p \in {a \in Addr : a % 2 = 0}}

(***************************************************************************)
(* The unwinder (unw_step, _Unwind_Backtrace): it yields the frames of the *)
(* chain one by one; a chain that links back on itself never ends.         *)
(***************************************************************************)
FrameChains ==
    UNION {[1..n -> Addr] : n \in 0..MaxFrames}

FirstPos == IF Len(frames) > 0 THEN 1 ELSE 0

NextPos(p) == IF p < Len(frames) THEN p + 1 ELSE loop

(***************************************************************************)
(* BacktraceState.                                                         *)
(***************************************************************************)
Slots == 0..(address_count_max - 1)

\* memset(state, 0, ...); signal_ucontext = ucontext; address_skip_count = 3.
BacktraceState_Init(uc) ==
    [signal_ucontext    |-> uc,
     address_skip_count |-> address_skip_count_default,
     address_count      |-> 0,
     addresses          |-> [i \in Slots |-> 0]]

\* What the stack slot of backtrace_state may hold before BacktraceState_Init.
Uninitialized ==
    {[signal_ucontext    |-> "NULL",
      address_skip_count |-> 0,
      address_count      |-> address_count_max + 1,
      addresses          |-> [i \in Slots |-> MaxAddr]],
     [signal_ucontext    |-> "NULL",
      address_skip_count |-> 1,
      address_count      |-> 1,
      addresses          |-> [i \in Slots |-> IF i = 0 THEN 2 ELSE 0]]}

\* Variant: the capacity test off by one.
StorageFullOffByOne(st) == st.address_count > address_count_max

\* Variant: no capacity test at all.
StorageNeverFull(st) == FALSE

\* "No more space in the storage."
StorageFull(st) == st.address_count >= address_count_max

\* ip &= ~thumb_bit, compiled only #if __thumb__.
ResetThumbBit(ip) == IF build.thumb THEN ip - (ip % 2) ELSE ip

\* Variant: a null address is ignored even when nothing is stored yet.
IsIgnoredNullWhenEmpty(st, ip) == ip = 0

\* Variant: null addresses are never ignored.
IsIgnoredNullNever(st, ip) == FALSE

\* "Ignore null addresses": only when something is stored already.
IsIgnoredNull(st, ip) == st.address_count > 0 /\ ip = 0

\* Variant: no address is ignored as a duplicate.
IsIgnoredDuplicateNever(st, ip) == FALSE

\* Variant: an address is ignored when it is stored anywhere.
IsIgnoredDuplicateAnywhere(st, ip) ==
    st.address_count > 0 /\ \E i \in 0..(st.address_count - 1) : st.addresses[i] = ip

\* "Ignore duplicate addresses": only against the last stored entry.
IsIgnoredDuplicate(st, ip) ==
    st.address_count > 0 /\ ip = st.addresses[st.address_count - 1]

\* Variant: the address is written to the first slot.
StoreAddressAtFront(st, ip) ==
    [st EXCEPT !.addresses[0] = ip,
               !.address_count = st.address_count + 1]

\* state->addresses[state->address_count++] = ip
StoreAddress(st, ip) ==
    [st EXCEPT !.addresses[st.address_count] = ip,
               !.address_count = st.address_count + 1]

\* Variant: the Thumb bit is reset after the null and duplicate tests.
BacktraceState_AddAddressLateReset(st, ip0) ==
    IF StorageFull(st)
    THEN [ok |-> FALSE, st |-> st]
    ELSE IF IsIgnoredNull(st, ip0) \/ IsIgnoredDuplicate(st, ip0)
         THEN [ok |-> TRUE, st |-> st]
         ELSE [ok |-> TRUE, st |-> StoreAddress(st, ResetThumbBit(ip0))]

\* bool BacktraceState_AddAddress(state, ip): the return value and the new state.
BacktraceState_AddAddress(st, ip0) ==
    IF StorageFull(st)
    THEN [ok |-> FALSE, st |-> st]
    ELSE LET ip == ResetThumbBit(ip0) IN
         IF IsIgnoredNull(st, ip)
         THEN [ok |-> TRUE, st |-> st]
         ELSE IF IsIgnoredDuplicate(st, ip)
              THEN [ok |-> TRUE, st |-> st]
              ELSE [ok |-> TRUE, st |-> StoreAddress(st, ip)]

(***************************************************************************)
(* The symbolizer's environment: dladdr and __cxa_demangle.                *)
(* A C string is a sequence of characters; a char* is <<>> when it is NULL *)
(* and <<s>> when it points to the string s.                               *)
(***************************************************************************)
NullStr == <<>>

Str(s) == <<s>>

EmptyName == <<>>

NameMain == <<"m", "a", "i", "n">>

NameMangledFoo == <<"_", "Z", "3", "f", "o", "o", "v">>

\* The loaded module: its base, the addresses it spans and its symbols.
LoadedModule ==
    [dli_fbase |-> 1,
     span      |-> {1, 2, 3},
     symbols   |-> [a \in {1, 2, 3} |->
                       CASE a = 1 -> Str(NameMain)
                         [] a = 2 -> Str(NameMangledFoo)
                         [] OTHER -> NullStr]]

\* Dl_info info = {}; dladdr(address, &info): the return value and info.
Dladdr(address) ==
    IF address \in LoadedModule.span
    THEN [ret       |-> 1,
          dli_fbase |-> LoadedModule.dli_fbase,
          dli_sname |-> LoadedModule.symbols[address]]
    ELSE [ret |-> 0, dli_fbase |-> NULL, dli_sname |-> NullStr]

Digit(c) ==
    CASE c = "0" -> 0 [] c = "1" -> 1 [] c = "2" -> 2 [] c = "3" -> 3
      [] c = "4" -> 4 [] c = "5" -> 5 [] c = "6" -> 6 [] c = "7" -> 7
      [] c = "8" -> 8 [] c = "9" -> 9 [] OTHER -> -1

\* A mangled name of the form _Z <length> <identifier> v: a function
\* without parameters.
IsMangledName(name) ==
    /\ Len(name) >= 5
    /\ name[1] = "_"
    /\ name[2] = "Z"
    /\ Digit(name[3]) >= 1
    /\ Len(name) = 3 + Digit(name[3]) + 1
    /\ name[Len(name)] = "v"

\* __cxa_demangle(symbol_name, NULL, NULL, &status): a new string, or NULL
\* when the name is not a valid mangled name.
CxaDemangle(name) ==
    IF IsMangledName(name)
    THEN Str(SubSeq(name, 4, 3 + Digit(name[3])) \o <<"(", ")">>)
    ELSE NullStr

\* Variant: the name is used without testing dladdr's return value.
SymbolNameUnchecked(inf) ==
    IF inf.dli_sname # NullStr THEN inf.dli_sname[1] ELSE <<"(", "n", "u", "l", "l", ")">>

\* symbol_name = ""; if (dladdr(...) && info.dli_sname) symbol_name = info.dli_sname
SymbolName(inf) ==
    IF inf.ret # 0 /\ inf.dli_sname # NullStr THEN inf.dli_sname[1] ELSE EmptyName

\* (char*)address - (char*)info.dli_fbase
RelativeAddress(address, inf) == address - inf.dli_fbase

\* Variant: the result of __cxa_demangle is used whether or not it is NULL.
PrintedNameAlwaysDemangled(symbol_name, dem) ==
    IF dem # NullStr THEN dem[1] ELSE EmptyName

\* if (demangled) symbol_name = demangled
PrintedName(symbol_name, dem) ==
    IF dem # NullStr THEN dem[1] ELSE symbol_name

\* printf("Backtrace captured using ...:\n")
HeaderLine(m) == [kind |-> "header", method |-> m]

\* printf("  #%02zu:  0x%lx  %s\n", frame_index, relative_address, symbol_name)
FrameLine(i, rel, name) ==
    [kind |-> "frame", frame_index |-> i, relative_address |-> rel, symbol_name |-> name]

(***************************************************************************)
(* The initial state: SigActionHandler has just been entered.              *)
(***************************************************************************)
\* The value of add after a step that made no BacktraceState_AddAddress call.
NoAdd == [called |-> FALSE]

Init ==
    /\ build \in Builds
    /\ ucontext \in FaultContexts
    /\ frames \in FrameChains
    /\ loop \in 0..Len(frames)
    /\ at = "block"
    /\ mi = 1
    /\ state \in Uninitialized
    /\ pos = 0
    /\ reg_ip = 0
    /\ frame_ip = 0
    /\ ncalls = 0
    /\ walked = 0
    /\ tick = 0
    /\ rc = URC_NO_REASON
    /\ add = NoAdd
    /\ recent = <<>>
    /\ frame_index = 0
    /\ info = [ret |-> 0, dli_fbase |-> NULL, dli_sname |-> NullStr]
    /\ demangled = NullStr
    /\ stdout = <<>>

(***************************************************************************)
(* Helpers of the actions.                                                 *)
(***************************************************************************)
\* signal_mcontext->arm_pc, read through state->signal_ucontext.
SignalPc(st) == ucontext.arm_pc

\* The latest (up to three) calls, with one more.
Remember(calls, ip, ok) ==
    LET all == Append(calls, [ip |-> ip, ok |-> ok])
    IN IF Len(all) > 3 THEN SubSeq(all, Len(all) - 2, Len(all)) ELSE all

\* One more callback invocation.
Counted(n) == IF n < MaxCalls THEN n + 1 ELSE n

\* More frames than a walk that ends can yield: the handler's own frame or the
\* frames skipped, the frames before the loop, thirty rounds of the loop and
\* the frame rejected.
WalkCap == address_skip_count_default + (address_count_max + 1) * MaxFrames + 2

\* The unwinder yields one more frame.
FrameYielded ==
    walked' = IF walked < WalkCap THEN walked + 1 ELSE walked

\* The step calls BacktraceState_AddAddress(state, ip); tail is what the
\* caller does with the return value.
CallAddAddress(ip) ==
    LET r == BacktraceState_AddAddress(state, ip)
    IN /\ state' = r.st
       /\ add' = [called |-> TRUE, ip |-> ip, ok |-> r.ok, before |-> state]
       /\ recent' = Remember(recent, ip, r.ok)

\* The step makes no BacktraceState_AddAddress call.
NoAddAddress ==
    /\ add' = NoAdd
    /\ UNCHANGED recent

\* Variant: the callback asks the unwinder to stop when the address is taken.
ReasonCodeInverted(ok) == IF ok THEN URC_END_OF_STACK ELSE URC_NO_REASON

\* Variant: the callback never asks the unwinder to stop.
ReasonCodeNeverStops(ok) == URC_NO_REASON

\* if (!ok) return _URC_END_OF_STACK; return _URC_NO_REASON;
ReasonCode(ok) == IF ok THEN URC_NO_REASON ELSE URC_END_OF_STACK

\* The unwinding function returns and PrintBacktrace starts.
StartPrint ==
    /\ at' = "print"
    /\ frame_index' = 0
    /\ tick' = 0
    /\ walked' = 0

\* The walk goes on with the next frame.
KeepWalking ==
    /\ tick' = 1 - tick
    /\ FrameYielded
    /\ UNCHANGED <<at, frame_index>>

(***************************************************************************)
(* SigActionHandler: the start of a block.                                 *)
(***************************************************************************)
\* printf("Backtrace captured using ..."); BacktraceState_Init(&backtrace_state, signal_ucontext)
BlockInit ==
    /\ at = "block"
    /\ stdout' = Append(stdout, HeaderLine(method))
    /\ state' = BacktraceState_Init("ucontext")
    /\ at' = IF method = LIBUNWIND_WITH_REGISTERS_METHOD THEN "seed" ELSE "walk"
    /\ pos' = FirstPos
    /\ reg_ip' = 0
    /\ frame_ip' = 0
    /\ ncalls' = 0
    /\ walked' = 0
    /\ tick' = 0
    /\ rc' = URC_NO_REASON
    /\ recent' = <<>>
    /\ add' = NoAdd
    /\ UNCHANGED <<env, mi, frame_index, info, demangled>>

(***************************************************************************)
(* LibunwindWithRegisters.                                                 *)
(***************************************************************************)
\* The cursor is set from the fault context and arm_pc is added.
LibunwindWithRegisters_Seed ==
    /\ at = "seed"
    /\ state.signal_ucontext = "ucontext"
    /\ reg_ip' = SignalPc(state)
    /\ CallAddAddress(SignalPc(state))
    /\ at' = "walk"
    /\ UNCHANGED <<env, mi, pos, frame_ip, ncalls, walked, tick, rc, frame_index, info, demangled, stdout>>

\* Variant: the loop goes on after a rejected insertion (no break).
LibunwindWithRegisters_StepWithoutBreak ==
    /\ at = "walk"
    /\ method = LIBUNWIND_WITH_REGISTERS_METHOD
    /\ pos # 0
    /\ reg_ip' = frames[pos]
    /\ frame_ip' = frames[pos]
    /\ pos' = NextPos(pos)
    /\ CallAddAddress(frames[pos])
    /\ KeepWalking
    /\ UNCHANGED <<env, mi, ncalls, rc, info, demangled, stdout>>

\* unw_step() > 0: one iteration of the loop.
LibunwindWithRegisters_Step ==
    /\ at = "walk"
    /\ method = LIBUNWIND_WITH_REGISTERS_METHOD
    /\ pos # 0
    /\ reg_ip' = frames[pos]
    /\ frame_ip' = frames[pos]
    /\ pos' = NextPos(pos)
    /\ CallAddAddress(frames[pos])
    /\ IF add'.ok
       THEN KeepWalking
       ELSE StartPrint
    /\ UNCHANGED <<env, mi, ncalls, rc, info, demangled, stdout>>

\* unw_step() <= 0: the loop ends.
LibunwindWithRegisters_End ==
    /\ at = "walk"
    /\ method = LIBUNWIND_WITH_REGISTERS_METHOD
    /\ pos = 0
    /\ NoAddAddress
    /\ StartPrint
    /\ UNCHANGED <<env, mi, state, pos, reg_ip, frame_ip, ncalls, rc, info, demangled, stdout>>

(***************************************************************************)
(* UnwindBacktraceWithRegisters.                                           *)
(***************************************************************************)
\* Variant: no invocation is taken for the first one.
IsFirstCallNever(st) == FALSE

\* "On the first UnwindBacktraceCallback() call": state->address_count == 0
IsFirstCall(st) == st.address_count = 0

\* One invocation of UnwindBacktraceWithRegistersCallback by _Unwind_Backtrace.
\* The first invocation presents the handler's own frame, the later ones the
\* frames of the chain that starts at the registers the callback has set.
UnwindBacktraceWithRegistersCallback ==
    /\ at = "walk"
    /\ method = UNWIND_BACKTRACE_WITH_REGISTERS_METHOD
    /\ ncalls = 0 \/ pos # 0
    /\ \E fip \in (IF ncalls = 0 THEN Addr ELSE {frames[pos]}) :
          /\ frame_ip' = fip
          /\ IF IsFirstCall(state)
             THEN \* ProcessRegisters
                  /\ state.signal_ucontext = "ucontext"
                  /\ reg_ip' = SignalPc(state)
                  /\ CallAddAddress(SignalPc(state))
                  /\ rc' = URC_NO_REASON
                  /\ pos' = FirstPos
             ELSE /\ reg_ip' = fip
                  /\ CallAddAddress(fip)
                  /\ rc' = ReasonCode(add'.ok)
                  /\ pos' = IF ncalls = 0 THEN FirstPos ELSE NextPos(pos)
    /\ ncalls' = Counted(ncalls)
    /\ IF rc' = URC_END_OF_STACK
       THEN StartPrint
       ELSE KeepWalking
    /\ UNCHANGED <<env, mi, info, demangled, stdout>>

(***************************************************************************)
(* UnwindBacktraceWithSkipping.                                            *)
(***************************************************************************)
\* Variant: one frame fewer is skipped.
MustSkipOneLess(st) == st.address_skip_count > 1

\* "Skip some initial addresses": state->address_skip_count > 0
MustSkip(st) == st.address_skip_count > 0

\* One invocation of UnwindBacktraceWithSkippingCallback by _Unwind_Backtrace.
UnwindBacktraceWithSkippingCallback ==
    /\ at = "walk"
    /\ method = UNWIND_BACKTRACE_WITH_SKIPPING_METHOD
    /\ pos # 0
    /\ frame_ip' = frames[pos]
    /\ reg_ip' = frames[pos]
    /\ pos' = NextPos(pos)
    /\ IF MustSkip(state)
       THEN /\ state' = [state EXCEPT !.address_skip_count = state.address_skip_count - 1]
            /\ NoAddAddress
            /\ rc' = URC_NO_REASON
       ELSE /\ CallAddAddress(frames[pos])
            /\ rc' = ReasonCode(add'.ok)
    /\ ncalls' = Counted(ncalls)
    /\ IF rc' = URC_END_OF_STACK
       THEN StartPrint
       ELSE KeepWalking
    /\ UNCHANGED <<env, mi, info, demangled, stdout>>

\* _Unwind_Backtrace finds no further frame and returns.
UnwindBacktrace_End ==
    /\ at = "walk"
    /\ method # LIBUNWIND_WITH_REGISTERS_METHOD
    /\ method = UNWIND_BACKTRACE_WITH_REGISTERS_METHOD => ncalls > 0
    /\ pos = 0
    /\ NoAddAddress
    /\ StartPrint
    /\ UNCHANGED <<env, mi, state, pos, reg_ip, frame_ip, ncalls, rc, info, demangled, stdout>>

(***************************************************************************)
(* PrintBacktrace.                                                         *)
(***************************************************************************)
\* One iteration of the loop over the stored addresses.
PrintBacktrace_Frame ==
    /\ at = "print"
    /\ frame_index < state.address_count
    /\ LET address == state.addresses[frame_index] IN
       /\ address # NULL \/ build.ndebug
       /\ info' = Dladdr(address)
       /\ LET symbol_name == SymbolName(info') IN
          /\ demangled' = CxaDemangle(symbol_name)
          /\ stdout' = Append(stdout,
                 FrameLine(frame_index, RelativeAddress(address, info'),
                           PrintedName(symbol_name, demangled')))
    /\ frame_index' = frame_index + 1
    /\ NoAddAddress
    /\ UNCHANGED <<env, at, mi, state, pos, reg_ip, frame_ip, ncalls, walked, tick, rc>>

\* assert(address) fails: the process aborts.
PrintBacktrace_AssertFails ==
    /\ at = "print"
    /\ frame_index < state.address_count
    /\ state.addresses[frame_index] = NULL
    /\ ~build.ndebug
    /\ at' = "aborted"
    /\ NoAddAddress
    /\ UNCHANGED <<env, mi, state, pos, reg_ip, frame_ip, ncalls, walked, tick, rc, frame_index,
                   info, demangled, stdout>>

\* The loop is over: the block ends, the next block or exit(0) follows.
PrintBacktrace_Return ==
    /\ at = "print"
    /\ frame_index >= state.address_count
    /\ IF mi < Len(Methods)
       THEN /\ mi' = mi + 1
            /\ at' = "block"
       ELSE /\ at' = "exit"
            /\ UNCHANGED mi
    /\ NoAddAddress
    /\ UNCHANGED <<env, state, pos, reg_ip, frame_ip, ncalls, walked, tick, rc, frame_index,
                   info, demangled, stdout>>

\* exit(0)
Exit ==
    /\ at = "exit"
    /\ at' = "exited"
    /\ NoAddAddress
    /\ UNCHANGED <<env, mi, state, pos, reg_ip, frame_ip, ncalls, walked, tick, rc, frame_index,
                   info, demangled, stdout>>

Next ==
    \/ BlockInit
    \/ LibunwindWithRegisters_Seed
    \/ LibunwindWithRegisters_Step
    \/ LibunwindWithRegisters_End
    \/ UnwindBacktraceWithRegistersCallback
    \/ UnwindBacktraceWithSkippingCallback
    \/ UnwindBacktrace_End
    \/ PrintBacktrace_Frame
    \/ PrintBacktrace_AssertFails
    \/ PrintBacktrace_Return
    \/ Exit

Spec == Init /\ [][Next]_vars

\* The handler is one thread that runs without waiting for anything: a step
\* that can be taken is taken.
FairSpec == Spec /\ WF_vars(Next)

(***************************************************************************)
(* Properties of BacktraceState_AddAddress.                                *)
(***************************************************************************)
\* BacktraceState_Init has run for the backtrace_state of the current block.
Initialized == mi > 1 \/ at # "block"

\* The latest step was a call of BacktraceState_AddAddress that left the
\* count and the whole array as they were.
AddWasNoOp ==
    /\ state.address_count = add.before.address_count
    /\ state.addresses = add.before.addresses

\* C1: on an initialized state address_count never exceeds 30, and a call
\* made while address_count is 30 returns false and leaves address_count and
\* every stored entry unchanged.
C1_CapacityNeverExceeded ==
    /\ Initialized => state.address_count <= 30
    /\ (add.called /\ add.before.address_count = 30) => (~add.ok /\ AddWasNoOp)

C1_Witness ==
    /\ add.called
    /\ add.before.address_count = 30
    /\ ~add.ok
    /\ state.address_count = 30

\* C2: a call with address zero while between 1 and 29 addresses are stored
\* changes neither the count nor the entries and returns true.
C2_NullIsIgnored ==
    (add.called /\ add.ip = 0 /\ add.before.address_count \in 1..29)
        => (add.ok /\ AddWasNoOp)

C2_Witness ==
    /\ add.called
    /\ add.ip = 0
    /\ add.before.address_count \in 1..29
    /\ add.ok

\* The latest three calls had the arguments X, Y, X and none was rejected.
CalledXYX ==
    /\ add.called
    /\ Len(recent) = 3
    /\ recent[1].ip = recent[3].ip
    /\ recent[1].ok /\ recent[2].ok /\ recent[3].ok

\* The last three stored entries are x, y, x.
StoredEndsWith(x, y) ==
    /\ state.address_count >= 3
    /\ state.addresses[state.address_count - 3] = x
    /\ state.addresses[state.address_count - 2] = y
    /\ state.addresses[state.address_count - 1] = x

\* A call with the address of the last stored entry, the storage not full,
\* changes nothing and returns true.
RepeatIsIgnored ==
    (/\ add.called
     /\ add.before.address_count \in 1..29
     /\ add.ip = add.before.addresses[add.before.address_count - 1])
        => (add.ok /\ AddWasNoOp)

\* C3 as stated: a call with the last stored address is a no-op that returns
\* true, and the calls X, Y, X with X # Y, both non-zero, none rejected, leave
\* X, Y, X as the last three stored entries (as the build stores them).
C3_Original ==
    /\ RepeatIsIgnored
    /\ (CalledXYX /\ recent[1].ip # recent[2].ip /\ recent[1].ip # 0 /\ recent[2].ip # 0)
          => StoredEndsWith(ResetThumbBit(recent[1].ip), ResetThumbBit(recent[2].ip))

\* C3 as amended: a call with the last stored address is a no-op that returns
\* true, and the calls X, Y, X, none rejected, leave X, Y, X as the last three
\* stored entries when X and Y, with the Thumb bit cleared on a Thumb build,
\* differ and are non-zero.
C3_OnlyLastEntryIsCompared ==
    /\ RepeatIsIgnored
    /\ (/\ CalledXYX
        /\ ResetThumbBit(recent[1].ip) # ResetThumbBit(recent[2].ip)
        /\ ResetThumbBit(recent[1].ip) # 0
        /\ ResetThumbBit(recent[2].ip) # 0)
          => StoredEndsWith(ResetThumbBit(recent[1].ip), ResetThumbBit(recent[2].ip))

C3_Witness ==
    /\ CalledXYX
    /\ ResetThumbBit(recent[1].ip) # ResetThumbBit(recent[2].ip)
    /\ ResetThumbBit(recent[1].ip) # 0
    /\ ResetThumbBit(recent[2].ip) # 0
    /\ state.address_count = 3
    /\ add.before.address_count = 2

\* C4: on a Thumb build every stored entry has bit 0 clear, and a call with
\* an address that has bit 0 set acts on the address with the bit cleared:
\* it is ignored when the cleared address is zero or equals the last stored
\* entry (something being stored), and stored cleared otherwise.
C4_ThumbBitIsReset ==
    build.thumb =>
        /\ Initialized =>
              \A i \in 0..(state.address_count - 1) : state.addresses[i] % 2 = 0
        /\ (add.called /\ add.ip % 2 = 1 /\ add.before.address_count < 30) =>
              LET n == add.before.address_count
                  cleared == add.ip - 1
              IN IF n > 0 /\ (cleared = 0 \/ cleared = add.before.addresses[n - 1])
                 THEN add.ok /\ AddWasNoOp
                 ELSE /\ add.ok
                      /\ state.address_count = n + 1
                      /\ state.addresses = [add.before.addresses EXCEPT ![n] = cleared]

C4_Witness ==
    /\ build.thumb
    /\ add.called
    /\ add.ip = 3
    /\ add.before.address_count > 0
    /\ state.address_count = add.before.address_count + 1
    /\ state.addresses[state.address_count - 1] = 2

(***************************************************************************)
(* Properties of the callbacks.                                            *)
(***************************************************************************)
\* The walk of method m has started (the block is past BacktraceState_Init).
InBlockOf(m) == method = m /\ at # "block"

\* C5: in UnwindBacktraceWithSkipping the first three callback invocations
\* add no address whatever the frames are: after k <= 3 invocations nothing
\* is stored, BacktraceState_AddAddress has not been called, the skip counter
\* is 3 - k and the callback has signalled continue.  The fourth invocation
\* makes the first call of BacktraceState_AddAddress.  The skip counter is
\* never below zero.
C5_SkipsThreeInvocations ==
    /\ Initialized => state.address_skip_count >= 0
    /\ (InBlockOf(UNWIND_BACKTRACE_WITH_SKIPPING_METHOD) /\ ncalls <= 3) =>
          /\ state.address_count = 0
          /\ \A i \in Slots : state.addresses[i] = 0
          /\ state.signal_ucontext = "ucontext"
          /\ state.address_skip_count = 3 - ncalls
          /\ recent = <<>>
          /\ ~add.called
          /\ rc = URC_NO_REASON
    /\ (InBlockOf(UNWIND_BACKTRACE_WITH_SKIPPING_METHOD) /\ ncalls = 4) =>
          /\ state.address_skip_count = 0
          /\ Len(recent) = 1
          /\ recent[1].ip = frame_ip

C5_Witness ==
    /\ InBlockOf(UNWIND_BACKTRACE_WITH_SKIPPING_METHOD)
    /\ ncalls = 4
    /\ add.called
    /\ \A i \in 1..Len(frames) : frames[i] >= 2
    /\ state.address_count = 1
    /\ state.address_skip_count = 0

ChainIsCyclic == Len(frames) > 0 /\ loop > 0

\* The addresses, as the build stores them, of the frames that repeat.
RepeatedAddresses == {ResetThumbBit(frames[i]) : i \in loop..Len(frames)}

\* The frames that repeat carry at least two different non-zero addresses.
CycleHasTwoAddresses ==
    /\ ChainIsCyclic
    /\ Cardinality(RepeatedAddresses \ {0}) >= 2

\* The walk of method m is under way.
Walking(m) == method = m /\ at \in {"seed", "walk"}

\* The walk of method m is over, ended by a rejected insertion.
StoppedByRejection(m) ==
    /\ method = m
    /\ at = "print"
    /\ Len(recent) > 0
    /\ ~recent[Len(recent)].ok
    /\ state.address_count = address_count_max

WalkNotStarted == at = "seed" \/ (at = "walk" /\ ncalls = 0 /\ recent = <<>>)

\* The handler is over: the process has exited or aborted.
HandlerOver == at \in {"exited", "aborted"}

\* The block of method m has been started.
BlockStarted(m) == \E i \in 1..Len(stdout) : stdout[i] = HeaderLine(m)

\* C8: every block starts its walk from a freshly initialized state (nothing
\* stored, every slot zero, skip count 3, bound to the fault context), and
\* whatever a block collects, every later block of the build is run: when the
\* handler is over, by exit(0), every block of the build has been started.
C8_BlocksAreIndependent ==
    /\ WalkNotStarted =>
          /\ state.address_count = 0
          /\ \A i \in Slots : state.addresses[i] = 0
          /\ state.address_skip_count = 3
          /\ state.signal_ucontext = "ucontext"
    /\ HandlerOver =>
          /\ at = "exited"
          /\ \A i \in 1..Len(Methods) : BlockStarted(Methods[i])

\* PrintBacktrace has printed at least one frame of the current block, the
\* latest with index frame_index - 1; info and demangled are those of it.
FramePrinted == at \in {"print", "exit", "exited", "aborted"} /\ frame_index > 0

\* The address of the frame printed last.
LastAddress == state.addresses[frame_index - 1]

\* The line printed last.
LastLine == stdout[Len(stdout)]

\* C9: when dladdr misses for a stored address, PrintBacktrace prints the
\* line of that frame with an empty symbol name and the address itself as the
\* relative address (a null base), the process does not abort, and the loop
\* goes on: the next frame, if there is one, passes assert(address).
C9_LookupMissIsPrinted ==
    (FramePrinted /\ info.ret = 0) =>
        /\ at # "aborted"
        /\ LastLine = FrameLine(frame_index - 1, LastAddress, <<>>)
        /\ frame_index <= state.address_count
        /\ frame_index < state.address_count => state.addresses[frame_index] # 0

C9_Witness ==
    /\ FramePrinted
    /\ at = "print"
    /\ info.ret = 0
    /\ LastAddress = 4
    /\ frame_index < state.address_count
    /\ LastLine = FrameLine(frame_index - 1, 4, <<>>)

\* The name dladdr has found for the frame printed last ("" when none).
FoundName ==
    IF info.ret # 0 /\ info.dli_sname # NullStr THEN info.dli_sname[1] ELSE <<>>

\* C10: when __cxa_demangle fails (it returns NULL) the line shows the name
\* dladdr has found, unchanged, and the loop goes on; the demangled name is
\* shown only when __cxa_demangle succeeds.  "main" is not a mangled name.
C10_DemangleFailureKeepsName ==
    /\ CxaDemangle(NameMain) = NullStr
    /\ FramePrinted =>
          /\ LastLine.frame_index = frame_index - 1
          /\ demangled = NullStr => LastLine.symbol_name = FoundName
          /\ demangled # NullStr =>
                /\ LastLine.symbol_name = demangled[1]
                /\ LastLine.symbol_name # FoundName
          /\ at # "aborted"

C10_Witness ==
    /\ FramePrinted
    /\ at = "print"
    /\ demangled = NullStr
    /\ info.dli_sname = Str(NameMain)
    /\ LastLine.symbol_name = NameMain
    /\ frame_index < state.address_count

C10_WitnessDemangled ==
    /\ FramePrinted
    /\ info.dli_sname = Str(NameMangledFoo)
    /\ LastLine.symbol_name = <<"f", "o", "o", "(", ")">>

(***************************************************************************)
(* The report of a block.                                                  *)
(***************************************************************************)
\* The index in stdout of the header of the block started last.
LastHeaderIndex ==
    CHOOSE i \in 1..Len(stdout) :
        /\ stdout[i].kind = "header"
        /\ \A j \in (i + 1)..Len(stdout) : stdout[j].kind = "frame"

\* The lines PrintBacktrace has written for the block started last.
Report == SubSeq(stdout, LastHeaderIndex + 1, Len(stdout))

\* The line of the stored address with index i.
LineOf(i) ==
    LET address == state.addresses[i]
        inf == Dladdr(address)
        symbol_name == SymbolName(inf)
    IN FrameLine(i, RelativeAddress(address, inf),
                 PrintedName(symbol_name, CxaDemangle(symbol_name)))

\* The first n lines of the report are those of the stored addresses
\* 0..n-1, in their order, and there are no more.
ReportHasLines(n) ==
    /\ Len(Report) = n
    /\ \A i \in 0..(n - 1) : Report[i + 1] = LineOf(i)

\* The walk of the block started last was ended by a rejected insertion.
CollectionStoppedAtCapacity ==
    /\ Len(recent) > 0
    /\ ~recent[Len(recent)].ok
    /\ state.address_count = address_count_max

\* PrintBacktrace of the block started last is over, or the process is.
PrintIsOver == (at = "block" /\ mi > 1) \/ at \in {"exit", "exited", "aborted"}

\* C11: when the walk was ended by a rejected insertion (30 addresses
\* stored), PrintBacktrace writes one line per stored address, in the order
\* of the array, with the frame indices 0, 1, ...: while it runs the report
\* has frame_index lines, and when it is over the report has exactly
\* address_count lines.
C11_PartialBacktraceIsReported ==
    CollectionStoppedAtCapacity =>
        /\ at = "print" => ReportHasLines(frame_index)
        /\ PrintIsOver => ReportHasLines(state.address_count)

(***************************************************************************)
(* The order of the steps of SigActionHandler.                             *)
(***************************************************************************)
\* The headers written so far are those of the first n blocks, in order.
HeadersAre(n) ==
    LET headers == SelectSeq(stdout, LAMBDA l : l.kind = "header")
    IN headers = [i \in 1..n |-> HeaderLine(Methods[i])]

\* A step of the handler keeps the order Init, unwind, print of a block and
\* the order of the blocks; the last block's print is followed by exit(0).
InHandlerOrder ==
    /\ at = "block" => at' \in {"seed", "walk"} /\ mi' = mi /\ HeadersAre(mi)'
    /\ at = "seed" => at' = "walk" /\ mi' = mi
    /\ at = "walk" => at' \in {"walk", "print"} /\ mi' = mi
    /\ at = "print" =>
          \/ at' = "print" /\ mi' = mi /\ frame_index' = frame_index + 1
          \/ at' = "block" /\ mi' = mi + 1 /\ frame_index = state.address_count
          \/ at' = "exit" /\ mi = Len(Methods) /\ frame_index = state.address_count
    /\ at = "exit" => at' = "exited" /\ stdout' = stdout
    /\ at = "exited" => FALSE

\* C12: the handler runs the blocks of the build in their order, each block
\* as Init, unwind, print, and after the print of the last block the process
\* ends by exit(0): every step keeps that order, and exit(0) is reached with
\* the header of every block written.
C12_EveryStrategyRunsThenExit ==
    /\ [][InHandlerOrder]_vars
    /\ <>(at = "exited" /\ HeadersAre(Len(Methods)))

(***************************************************************************)
(* The return code of the callbacks.                                       *)
(***************************************************************************)
\* The current block is one of the two that use _Unwind_Backtrace, and it is
\* in its walk or its print.
InCallbackBlock ==
    /\ method \in {UNWIND_BACKTRACE_WITH_REGISTERS_METHOD,
                   UNWIND_BACKTRACE_WITH_SKIPPING_METHOD}
    /\ at \in {"walk", "print"}

\* C13: a callback of UnwindBacktraceWithRegisters or
\* UnwindBacktraceWithSkipping returns _URC_END_OF_STACK exactly when its call
\* of BacktraceState_AddAddress returns false, which is exactly when the call
\* was made with address_count already 30; an invocation that skips the
\* frame, that sets the registers, or whose address is stored or ignored
\* returns _URC_NO_REASON.  The walk goes on only after _URC_NO_REASON.
C13_StopExactlyWhenFull ==
    InCallbackBlock =>
        /\ rc \in {URC_NO_REASON, URC_END_OF_STACK}
        /\ add.called =>
              /\ rc = URC_END_OF_STACK <=> ~add.ok
              /\ rc = URC_END_OF_STACK <=> add.before.address_count = 30
        /\ (~add.called /\ at = "walk") => rc = URC_NO_REASON
        /\ at = "walk" => rc = URC_NO_REASON

C13_Witness ==
    /\ method = UNWIND_BACKTRACE_WITH_REGISTERS_METHOD
    /\ at = "print"
    /\ add.called
    /\ add.before.address_count = 30
    /\ rc = URC_END_OF_STACK

C13_WitnessContinue ==
    /\ method = UNWIND_BACKTRACE_WITH_SKIPPING_METHOD
    /\ at = "walk"
    /\ add.called
    /\ add.ok
    /\ AddWasNoOp
    /\ add.before.address_count >= 1
    /\ rc = URC_NO_REASON

(***************************************************************************)
(* LibunwindWithRegisters.                                                 *)
(***************************************************************************)
\* The position in the chain of the k-th frame the unwinder yields (k >= 1):
\* the frames 1..Len(frames) one by one, then, when the chain links back,
\* the frames loop..Len(frames) again and again; 0 when the chain has ended.
PosAt(k) ==
    IF k <= Len(frames)
    THEN k
    ELSE IF loop = 0
         THEN 0
         ELSE loop + ((k - Len(frames) - 1) % (Len(frames) - loop + 1))

\* C14: LibunwindWithRegisters stores arm_pc as entry 0 before the first
\* unw_step; the k-th iteration calls BacktraceState_AddAddress with the
\* instruction pointer of the k-th frame of the chain; while the loop runs no
\* call has been rejected; and the loop is over only after a rejected call,
\* the last one made, that has left the state as it was with 30 addresses
\* stored, or with no further frame.
C14_LibunwindStopsAtFirstRejection ==
    /\ (method = LIBUNWIND_WITH_REGISTERS_METHOD /\ at = "seed") =>
          /\ state.address_count = 0
          /\ recent = <<>>
          /\ walked = 0
          /\ pos = FirstPos
    /\ (method = LIBUNWIND_WITH_REGISTERS_METHOD /\ at \in {"walk", "print"}) =>
          /\ state.address_count >= 1
          /\ state.addresses[0] = ucontext.arm_pc
          /\ \A i \in 1..(Len(recent) - 1) : recent[i].ok
    /\ (method = LIBUNWIND_WITH_REGISTERS_METHOD /\ at = "walk") =>
          /\ \A i \in 1..Len(recent) : recent[i].ok
          /\ walked = 0 =>
                /\ recent = <<[ip |-> ucontext.arm_pc, ok |-> TRUE]>>
                /\ state.address_count = 1
                /\ pos = FirstPos
          /\ (walked > 0 /\ walked < WalkCap) =>
                /\ add.called
                /\ add.ip = frames[PosAt(walked)]
                /\ pos = NextPos(PosAt(walked))
    /\ (method = LIBUNWIND_WITH_REGISTERS_METHOD /\ at = "print") =>
          /\ CollectionStoppedAtCapacity \/ pos = 0
          /\ (frame_index = 0 /\ add.called) =>
                /\ ~add.ok
                /\ add.ip = frame_ip
                /\ state = add.before
                /\ CollectionStoppedAtCapacity
          /\ (frame_index = 0 /\ ~add.called) =>
                /\ pos = 0
                /\ \A i \in 1..Len(recent) : recent[i].ok

C14_Witness ==
    /\ method = LIBUNWIND_WITH_REGISTERS_METHOD
    /\ at = "print"
    /\ frame_index = 0
    /\ add.called
    /\ ~add.ok
    /\ pos # 0
    /\ state.address_count = 30
    /\ state.addresses[0] = ucontext.arm_pc

C14_WitnessNoFurtherFrame ==
    /\ method = LIBUNWIND_WITH_REGISTERS_METHOD
    /\ at = "print"
    /\ frame_index = 0
    /\ ~add.called
    /\ pos = 0
    /\ state.address_count = 3
    /\ state.addresses[1] = frames[1]
    /\ state.addresses[2] = frames[2]

(***************************************************************************)
(* The stored addresses.                                                   *)
(***************************************************************************)
\* C15: no stored entry of an initialized state is zero, and assert(address)
\* in PrintBacktrace never fails.
C15_NoZeroEntry ==
    /\ Initialized => \A i \in 0..(state.address_count - 1) : state.addresses[i] # 0
    /\ at # "aborted"

\* C16: in UnwindBacktraceWithRegisters, once the first callback invocation
\* is over, address_count is at least 1 for the rest of the block, whatever
\* arm_pc is (zero too); the first invocation, entered with nothing stored,
\* adds arm_pc and sets the instruction pointer register to it; every later
\* invocation is entered with something stored and adds the instruction
\* pointer of the frame presented.
C16_RegistersAreSetOnce ==
    (InBlockOf(UNWIND_BACKTRACE_WITH_REGISTERS_METHOD) /\ ncalls >= 1) =>
        /\ state.address_count >= 1
        /\ state.addresses[0] = ucontext.arm_pc
        /\ ncalls = 1 =>
              /\ state.address_count = 1
              /\ recent = <<[ip |-> ucontext.arm_pc, ok |-> TRUE]>>
              /\ reg_ip = ucontext.arm_pc
              /\ add.called => add.before.address_count = 0
        /\ ncalls >= 2 => Len(recent) >= 2
        /\ (ncalls >= 2 /\ add.called) =>
              /\ add.before.address_count >= 1
              /\ add.ip = frame_ip
              /\ reg_ip = frame_ip

C16_Witness ==
    /\ InBlockOf(UNWIND_BACKTRACE_WITH_REGISTERS_METHOD)
    /\ ucontext.arm_pc = 0
    /\ ncalls >= 3
    /\ add.called
    /\ add.before.address_count = 1
    /\ state.address_count = 2
    /\ state.addresses[0] = 0

\* C17: a call of BacktraceState_AddAddress leaves address_count as it was
\* or makes it one more, changes no entry below the address_count it was
\* called with, and leaves address_skip_count and signal_ucontext as they
\* were; a call that is rejected or ignored changes nothing at all, and a
\* call that stores changes the one slot at the old address_count.
C17_AddAddressIsAppendOnly ==
    add.called =>
        LET n == add.before.address_count IN
        /\ state.address_count \in {n, n + 1}
        /\ \A i \in 0..(n - 1) : state.addresses[i] = add.before.addresses[i]
        /\ state.address_skip_count = add.before.address_skip_count
        /\ state.signal_ucontext = add.before.signal_ucontext
        /\ ~add.ok => state = add.before
        /\ state.address_count = n => state = add.before
        /\ state.address_count = n + 1 =>
              /\ add.ok
              /\ state.addresses = [add.before.addresses EXCEPT ![n] = state.addresses[n]]

C17_Witness ==
    /\ method = UNWIND_BACKTRACE_WITH_SKIPPING_METHOD
    /\ add.called
    /\ add.ok
    /\ add.before.address_count >= 2
    /\ state.address_count = add.before.address_count + 1
    /\ state.address_skip_count = 0
    /\ state.addresses[0] # add.ip

C17_WitnessIgnored ==
    /\ add.called
    /\ add.ok
    /\ add.before.address_count >= 2
    /\ state = add.before

C17_WitnessRejected ==
    /\ add.called
    /\ ~add.ok
    /\ state = add.before

\* C18: after every call of BacktraceState_AddAddress no two adjacent stored
\* entries are equal and every stored entry with index 1 or more is non-zero.
C18_NoAdjacentDuplicates ==
    add.called =>
        \A i \in 1..(state.address_count - 1) :
            /\ state.addresses[i] # 0
            /\ state.addresses[i] # state.addresses[i - 1]

C18_Witness ==
    /\ add.called
    /\ add.ok
    /\ AddWasNoOp
    /\ state.address_count >= 3
    /\ add.ip = state.addresses[state.address_count - 1]
    /\ state.addresses[0] = 0

C18_WitnessNull ==
    /\ add.called
    /\ add.ok
    /\ AddWasNoOp
    /\ state.address_count >= 2
    /\ add.ip = 0

(***************************************************************************)
(* LibunwindWithRegisters and UnwindBacktraceWithRegisters compared.       *)
(***************************************************************************)
\* The list with one more address filtered in: the address (Thumb bit
\* cleared on a Thumb build) is dropped when it is zero or equals the last
\* one of a list that is not empty.
Filtered(list, ip) ==
    LET a == ResetThumbBit(ip) IN
    IF list # <<>> /\ (a = 0 \/ a = list[Len(list)])
    THEN list
    ELSE Append(list, a)

\* The list grown with the frames the unwinder yields from position p on,
\* up to 30 addresses.
RECURSIVE Truncated(_, _, _)
Truncated(list, p, fuel) ==
    IF p = 0 \/ fuel = 0 \/ Len(list) >= address_count_max
    THEN list
    ELSE Truncated(Filtered(list, frames[p]), NextPos(p), fuel - 1)

\* The address of the fault first, then the filtered addresses of the frames
\* of the chain, truncated at 30.
ExpectedList == Truncated(Filtered(<<>>, ucontext.arm_pc), FirstPos, WalkCap)

\* The stored addresses as a list.
StoredList == [i \in 1..state.address_count |-> state.addresses[i - 1]]

\* C19: for the same fault context and the same chain of frames, the walk of
\* LibunwindWithRegisters and the walk of UnwindBacktraceWithRegisters both
\* end with the same list stored: arm_pc first, then the filtered addresses
\* of the frames, truncated at 30.
C19_SameListFromAAndB ==
    (/\ method \in {LIBUNWIND_WITH_REGISTERS_METHOD,
                    UNWIND_BACKTRACE_WITH_REGISTERS_METHOD}
     /\ at = "print"
     /\ frame_index = 0)
        => StoredList = ExpectedList

C19_Witness ==
    /\ method = UNWIND_BACKTRACE_WITH_REGISTERS_METHOD
    /\ at = "print"
    /\ frame_index = 0
    /\ StoredList = ExpectedList
    /\ Len(StoredList) = 3
    /\ frame_ip # ucontext.arm_pc
    /\ BlockStarted(LIBUNWIND_WITH_REGISTERS_METHOD)

C19_WitnessTruncated ==
    /\ method = UNWIND_BACKTRACE_WITH_REGISTERS_METHOD
    /\ at = "print"
    /\ frame_index = 0
    /\ StoredList = ExpectedList
    /\ Len(StoredList) = 30

====
